---- MODULE Spec2Model ----
(***************************************************************************)
(* The retrieval core of q-chatbot: EmbeddingGenerator and VectorSearch    *)
(* (src/backend/retrieval/vector_search.py) with the handlers that call    *)
(* them (qa/router.py, upload/router.py, embedding_test/router.py).        *)
(*                                                                         *)
(* Representation.                                                         *)
(*  - An embedding vector is [dim, head]: dim is its length and head its    *)
(*    first two components; all further components are 0.  Inner products  *)
(*    and norms therefore depend on head alone, lengths on dim alone.      *)
(*  - A similarity is kept exactly as [num, den], denoting                  *)
(*    num / sqrt(den): the inner product of two L2-normalised vectors.     *)
(*    den = 0 with num < 0 denotes the float -FLT_MAX that faiss leaves    *)
(*    in the slots it could not fill.  Arithmetic is exact (no float32     *)
(*    rounding).                                                           *)
(*  - The embedding providers are external: a provider is deterministic   *)
(*    in the vector it returns for a text, and any single call may fail.   *)
(***************************************************************************)
EXTENDS Integers, Sequences, FiniteSets, TLC

VARIABLES
    settings,    \* backend.config.settings: which credentials are present
    models,      \* EmbeddingGenerator.models: registered model id -> provider kind
    provider,    \* environment: the vector length each remote provider answers with
    documents,   \* table "documents"
    queries,     \* table "queries"
    answers,     \* table "answers"
    uuids,       \* how many uuid4() values have been drawn
    op,          \* the operation called
    pc,          \* "call": not yet run, "done": completed, "idle": none called
    args,        \* its arguments
    env,         \* the environment's choices for it (which provider call fails)
    ret,         \* its outcome
    calls,       \* the provider invocations it made, in order
    accesses     \* the reads and writes of process-wide state by concurrent calls

vars == <<settings, models, provider, documents, queries, answers, uuids,
          op, pc, args, env, ret, calls, accesses>>

-----------------------------------------------------------------------------
(* Bounds of the model *)

MaxCorpus == 3
MaxCompareCorpus == 1
MaxTopK == 3
MaxModels == 2
MaxDocuments == 2
MaxQueries == 1
MaxRows == 3
MaxUuids == 4
MaxRepeatCorpus == 2

-----------------------------------------------------------------------------
(* Configuration: src/backend/config.py *)

ADA == "text-embedding-ada-002"
COHERE == "cohere-embed-v3"
BGE_LARGE == "BAAI/bge-large-en-v1.5"
BGE_BASE == "BAAI/bge-base-en-v1.5"
E5_LARGE == "intfloat/e5-large-v2"
E5_BASE == "intfloat/e5-base-v2"
MINILM == "sentence-transformers/all-MiniLM-L6-v2"
\* an id that no configuration registers
UNREGISTERED == "no-such-model"

EMBEDDING_DIMENSIONS ==
    (ADA :> 1536) @@ (BGE_LARGE :> 1024) @@ (BGE_BASE :> 768) @@
    (E5_LARGE :> 1024) @@ (E5_BASE :> 768) @@ (MINILM :> 384) @@ (COHERE :> 1024)

DEFAULT_EMBEDDING_MODEL == ADA

TOP_K_RESULTS == 5

MAX_FILE_SIZE == 10485760

ALLOWED_EXTENSIONS == {".pdf", ".docx"}

\* the declared length of the VECTOR columns of documents, queries, answers
VECTOR_COLUMN_DIM == 1536

\* the default top_k of search_faiss and search_pgvector
DEFAULT_TOP_K == 5

\* Python None where a list is expected (kept comparable with lists)
None == <<"None">>

-----------------------------------------------------------------------------
(* Small helpers *)

Abs(x) == IF x < 0 THEN -x ELSE x

Min2(a, b) == IF a < b THEN a ELSE b

Reverse(s) == [i \in 1..Len(s) |-> s[Len(s) + 1 - i]]

\* all sequences over S of length at most n
SeqsUpTo(S, n) == UNION {[1..k -> S] : k \in 0..n}

-----------------------------------------------------------------------------
(* The embedding providers (external services) *)

Texts == {"z", "a", "b", "c"}

\* The leading components of the vector a provider of the given kind returns
\* for a text.  "z" is a text with a degenerate (all-zero) embedding.
ProviderHead(kind, text) ==
    IF kind = "openai"
    THEN CASE text = "a" -> <<1, 0>>
           [] text = "b" -> <<1, 1>>
           [] text = "c" -> <<-1, 0>>
           [] OTHER      -> <<0, 0>>
    ELSE CASE text = "a" -> <<1, 1>>
           [] text = "b" -> <<1, 0>>
           [] text = "c" -> <<0, 1>>
           [] OTHER      -> <<0, 0>>

ProviderVector(model_name, kind, text) ==
    [dim |-> provider[model_name], head |-> ProviderHead(kind, text)]

-----------------------------------------------------------------------------
(* EmbeddingGenerator *)

\* _initialize_models: the registry as a function of the credentials present
initialize_models(s) ==
    LET openai == IF s.OPENAI_API_KEY THEN (ADA :> "openai") ELSE <<>>
        cohere == IF s.COHERE_API_KEY THEN (COHERE :> "cohere") ELSE <<>>
        hf     == IF s.HUGGINGFACE_API_KEY
                  THEN (BGE_LARGE :> "hf") @@ (BGE_BASE :> "hf") @@ (E5_LARGE :> "hf")
                       @@ (E5_BASE :> "hf") @@ (MINILM :> "hf")
                  ELSE <<>>
    IN  openai @@ cohere @@ hf

\* a get_embedding that goes to the backend before it looks the model up
get_embedding_CallFirst(text, model_name, provider_ok) ==
    IF model_name \notin DOMAIN models
    THEN [ok |-> FALSE, error |-> "ValueError", called |-> TRUE]
    ELSE IF models[model_name] \in {"openai", "cohere"}
    THEN IF provider_ok
         THEN [ok |-> TRUE, called |-> TRUE,
               vector |-> ProviderVector(model_name, models[model_name], text)]
         ELSE [ok |-> FALSE, error |-> "ProviderError", called |-> TRUE]
    ELSE [ok |-> FALSE, error |-> "AttributeError", called |-> FALSE]

\* get_embedding(text, model_name).  provider_ok is the environment's answer:
\* whether the provider call, if one is made, succeeds.
\* Outcome: ok (returned a vector) or not (raised error); called tells whether
\* the provider was invoked.
get_embedding(text, model_name, provider_ok) ==
    IF model_name \notin DOMAIN models
    THEN [ok |-> FALSE, error |-> "ValueError", called |-> FALSE]
    ELSE IF models[model_name] \in {"openai", "cohere"}
    THEN IF provider_ok
         THEN [ok |-> TRUE, called |-> TRUE,
               vector |-> ProviderVector(model_name, models[model_name], text)]
         ELSE [ok |-> FALSE, error |-> "ProviderError", called |-> TRUE]
    \* "hf": self._hf_models is read but assigned nowhere in the class
    ELSE [ok |-> FALSE, error |-> "AttributeError", called |-> FALSE]

\* a get_dimension that answers the default for every model
get_dimension_Default(model_name) == 1536

get_dimension(model_name) ==
    IF model_name \in DOMAIN EMBEDDING_DIMENSIONS
    THEN EMBEDDING_DIMENSIONS[model_name]
    ELSE 1536

-----------------------------------------------------------------------------
(* Vectors and similarities *)

Dot(u, v) == u[1] * v[1] + u[2] * v[2]

\* a search that forgets to normalise the rows
normalize_L2_Skipped(v) == [dim |-> v.dim, head |-> v.head, nsq |-> 1]

\* faiss.normalize_L2 on one row: the row is scaled by 1/sqrt(|x|^2) when
\* |x|^2 > 0 and is left untouched (all zeros) otherwise.  The row is kept as
\* head / sqrt(nsq).
normalize_L2(v) ==
    [dim |-> v.dim, head |-> v.head,
     nsq |-> IF Dot(v.head, v.head) > 0 THEN Dot(v.head, v.head) ELSE 1]

\* inner product of two normalised rows, as num / sqrt(den)
InnerProduct(x, q) == [num |-> Dot(x.head, q.head), den |-> x.nsq * q.nsq]

\* the value of an unfilled result slot of an inner-product index
NEG_FLT_MAX == [num |-> -1, den |-> 0]

\* a < b for similarities: num_a/sqrt(den_a) < num_b/sqrt(den_b), compared
\* through the sign-preserving squares
SimLess(a, b) == a.num * Abs(a.num) * b.den < b.num * Abs(b.num) * a.den

SimEq(a, b) == ~SimLess(a, b) /\ ~SimLess(b, a)

\* -1 <= s <= 1
SimInUnit(s) == s.den > 0 /\ s.num * s.num <= s.den

-----------------------------------------------------------------------------
(* faiss.IndexFlatIP.search: exhaustive scan with a k-slot result heap.    *)
(* The heap is a min-heap under CMin::cmp2, which orders entries by value  *)
(* and, among equal values, by id; its top is the entry that a better      *)
(* candidate replaces.  The heap is kept here as the sequence of its       *)
(* entries in pop order (top first): the binary layout is not observable.  *)

\* CMin::cmp2(a, b): a is nearer the top than b
Cmp2(a, b) == SimLess(a.val, b.val) \/ (SimEq(a.val, b.val) /\ a.id < b.id)

\* heap_heapify: k slots holding (neutral, -1)
HeapInit(k) == [i \in 1..k |-> [val |-> NEG_FLT_MAX, id |-> -1]]

\* heap_replace_top: the top entry is dropped and e takes its place in order
HeapReplaceTop(h, e) ==
    LET rest == Tail(h)
        pos  == Cardinality({i \in 1..Len(rest) : Cmp2(rest[i], e)})
    IN  SubSeq(rest, 1, pos) \o <<e>> \o SubSeq(rest, pos + 1, Len(rest))

\* add_result: a candidate enters only when it beats the top strictly (CMin::cmp)
HeapAddResult(h, e) ==
    IF SimLess(h[1].val, e.val) THEN HeapReplaceTop(h, e) ELSE h

RECURSIVE HeapScan(_, _, _, _)
\* the scan over rows j..n of the index, ids are 0-based
HeapScan(h, xs, q, j) ==
    IF j > Len(xs) THEN h
    ELSE HeapScan(HeapAddResult(h, [val |-> InnerProduct(xs[j], q), id |-> j - 1]),
                  xs, q, j + 1)

\* heap_reorder: entries are popped top first and written from the back, so
\* the result is best first, the unfilled (neutral, -1) slots last
HeapReorder(h) == Reverse(h)

\* index.search(q, k) over the rows xs: k (similarity, id) pairs
IndexSearch(xs, q, k) == HeapReorder(HeapScan(HeapInit(k), xs, q, 1))

\* documents[idx] for a Python list: a negative idx counts from the end
PyItem(list, idx) == IF idx >= 0 THEN list[idx + 1] ELSE list[Len(list) + idx + 1]

-----------------------------------------------------------------------------
(* VectorSearch.search_faiss *)

Raised(error, made) == [status |-> "raise", error |-> error, calls |-> made]

Returned(value, made) == [status |-> "return", value |-> value, calls |-> made]

\* the invocations when a failed provider call is made a second time
CallsWith_Retry(made, e, model_name, text) ==
    IF ~e.called THEN made
    ELSE IF e.ok THEN Append(made, [model |-> model_name, text |-> text])
    ELSE made \o <<[model |-> model_name, text |-> text],
                   [model |-> model_name, text |-> text]>>

\* the provider invocations so far, with the one get_embedding outcome e adds
CallsWith(made, e, model_name, text) ==
    IF e.called THEN Append(made, [model |-> model_name, text |-> text]) ELSE made

RECURSIVE EmbedDocuments(_, _, _, _, _)
RECURSIVE EmbedDocument(_, _, _, _, _, _)
\* the loop "for doc in documents": embeddings of the documents in order, or
\* the first error.  failAt is the environment's choice of the provider call
\* (counted from 1 within the operation) that fails, 0 for none.
EmbedDocuments(docs, model_name, failAt, i, acc) ==
    IF i > Len(docs) THEN [ok |-> TRUE, embeddings |-> acc.embeddings, calls |-> acc.calls]
    ELSE EmbedDocument(docs, model_name, failAt, i, acc,
                       get_embedding(docs[i], model_name, failAt # Len(acc.calls) + 1))

\* one iteration, e being the outcome of its get_embedding
EmbedDocument(docs, model_name, failAt, i, acc, e) ==
    IF e.ok
    THEN EmbedDocuments(docs, model_name, failAt, i + 1,
                        [embeddings |-> Append(acc.embeddings, e.vector),
                         calls |-> CallsWith(acc.calls, e, model_name, docs[i])])
    ELSE [ok |-> FALSE, error |-> e.error,
          calls |-> CallsWith(acc.calls, e, model_name, docs[i])]

\* a result loop that skips a slot whose text an earlier slot already gave
SearchResults_Dedup(docs, found) ==
    LET keep == {i \in 1..Len(found) :
                    /\ found[i].id < Len(docs)
                    /\ \A x \in 1..(i - 1) :
                          PyItem(docs, found[x].id) # PyItem(docs, found[i].id)}
        slot(j) == CHOOSE i \in keep : Cardinality({x \in keep : x < i}) = j - 1
    IN  [j \in 1..Cardinality(keep) |->
            [index |-> found[slot(j)].id,
             content |-> PyItem(docs, found[slot(j)].id),
             similarity |-> found[slot(j)].val]]

\* the result loop: one hit per returned slot whose idx < len(documents)
SearchResults(docs, found) ==
    LET keep == {i \in 1..Len(found) : found[i].id < Len(docs)}
        slot(j) == CHOOSE i \in keep : Cardinality({x \in keep : x < i}) = j - 1
    IN  [j \in 1..Cardinality(keep) |->
            [index |-> found[slot(j)].id,
             content |-> PyItem(docs, found[slot(j)].id),
             similarity |-> found[slot(j)].val]]

\* lines 143-160: the query is embedded (outcome qe) and the index searched
SearchQuery(docs, query, model_name, top_k, emb, qe) ==
    IF ~qe.ok THEN Raised(qe.error, CallsWith(emb.calls, qe, model_name, query))
    \* index.search asserts that the query has the index's dimension
    ELSE IF qe.vector.dim # get_dimension(model_name)
    THEN Raised("AssertionError", CallsWith(emb.calls, qe, model_name, query))
    ELSE Returned(SearchResults(docs,
                      IndexSearch([i \in 1..Len(docs) |-> normalize_L2(emb.embeddings[i])],
                                  normalize_L2(qe.vector), top_k)),
                  CallsWith(emb.calls, qe, model_name, query))

\* lines 134-141: the index is built from the document embeddings emb
SearchIndex(docs, query, model_name, top_k, failAt, emb) ==
    IF ~emb.ok THEN Raised(emb.error, emb.calls)
    \* np.array([]) is 1-dimensional: normalize_L2 reads x.shape[1]
    ELSE IF Len(docs) = 0 THEN Raised("IndexError", emb.calls)
    \* index.add asserts that the rows have the index's dimension
    ELSE IF \E i \in 1..Len(docs) : emb.embeddings[i].dim # get_dimension(model_name)
    THEN Raised("AssertionError", emb.calls)
    ELSE SearchQuery(docs, query, model_name, top_k, emb,
                     get_embedding(query, model_name, failAt # Len(emb.calls) + 1))

search_faiss(docs, query, model_name, top_k, failAt) ==
    SearchIndex(docs, query, model_name, top_k, failAt,
                EmbedDocuments(docs, model_name, failAt, 1,
                               [embeddings |-> <<>>, calls |-> <<>>]))

-----------------------------------------------------------------------------
(* VectorSearch.compare_models *)

\* A Python dict as the sequence of its (key, value) items in insertion
\* order.  d[k] = v keeps the position of a key that is already present.
DictKeys(d) == [i \in 1..Len(d) |-> d[i].key]

DictHas(d, k) == \E i \in 1..Len(d) : d[i].key = k

DictGet(d, k) == d[CHOOSE i \in 1..Len(d) : d[i].key = k].value

\* results kept as a list of pairs: a repeated key gets a second item
DictSet_Appending(d, k, v) == Append(d, [key |-> k, value |-> v])

DictSet(d, k, v) ==
    IF DictHas(d, k)
    THEN [i \in 1..Len(d) |-> IF d[i].key = k THEN [key |-> k, value |-> v] ELSE d[i]]
    ELSE Append(d, [key |-> k, value |-> v])

DefaultModelNames == <<ADA, BGE_BASE, MINILM>>

\* the iteration without its try/except: an error of search_faiss leaves it
CompareEntry_NoCatch(model_name, r) ==
    IF model_name \notin DOMAIN models
    THEN [entry |-> [kind |-> "error", error |-> "not available"], calls |-> <<>>,
          uncaught |-> ""]
    ELSE IF r.status = "return"
    THEN [entry |-> [kind |-> "hits", hits |-> r.value], calls |-> r.calls, uncaught |-> ""]
    ELSE [entry |-> [kind |-> "error", error |-> r.error], calls |-> r.calls,
          uncaught |-> r.error]

\* One iteration of "for model_name in model_names": the entry it stores, r
\* being the outcome of search_faiss for the model (used when it is called).
\* uncaught is the exception that leaves the iteration: "except Exception"
\* handles every error search_faiss raises, so there is none.
CompareEntry(model_name, r) ==
    IF model_name \notin DOMAIN models
    THEN [entry |-> [kind |-> "error", error |-> "not available"], calls |-> <<>>,
          uncaught |-> ""]
    ELSE IF r.status = "return"
    THEN [entry |-> [kind |-> "hits", hits |-> r.value], calls |-> r.calls, uncaught |-> ""]
    ELSE [entry |-> [kind |-> "error", error |-> r.error], calls |-> r.calls, uncaught |-> ""]

RECURSIVE CompareLoop(_, _, _, _, _, _)
RECURSIVE CompareStep(_, _, _, _, _, _, _)
\* "for model_name in model_names"; fails[i] is the environment's failAt for
\* the i-th model of the list
CompareLoop(docs, query, names, fails, i, acc) ==
    IF i > Len(names) THEN acc
    ELSE CompareStep(docs, query, names, fails, i, acc,
                     CompareEntry(names[i],
                                  search_faiss(docs, query, names[i], DEFAULT_TOP_K, fails[i])))

CompareStep(docs, query, names, fails, i, acc, e) ==
    IF e.uncaught # ""
    THEN [results |-> acc.results, calls |-> acc.calls \o e.calls, uncaught |-> e.uncaught]
    ELSE CompareLoop(docs, query, names, fails, i + 1,
                     [results |-> DictSet(acc.results, names[i], e.entry),
                      calls |-> acc.calls \o e.calls,
                      uncaught |-> ""])

CompareOutcome(r) ==
    IF r.uncaught # "" THEN Raised(r.uncaught, r.calls) ELSE Returned(r.results, r.calls)

compare_models(docs, query, model_names, fails) ==
    CompareOutcome(
        CompareLoop(docs, query,
                    IF model_names = None THEN DefaultModelNames ELSE model_names,
                    fails, 1, [results |-> <<>>, calls |-> <<>>, uncaught |-> ""]))

-----------------------------------------------------------------------------
(* Inputs *)

InputModels == {ADA, COHERE, BGE_LARGE, UNREGISTERED}

CompareInputModels == {ADA, COHERE, UNREGISTERED}

Corpora == SeqsUpTo(Texts, MaxCorpus)

CompareCorpora == SeqsUpTo(Texts, MaxCompareCorpus)

TopKs == 1..MaxTopK

\* the lists compare_models is called with; None selects the default list
ModelLists == SeqsUpTo(CompareInputModels, MaxModels) \cup {None}

NamesOf(model_names) == IF model_names = None THEN DefaultModelNames ELSE model_names

\* the configurations the service is started with
Configs ==
    {[OPENAI_API_KEY |-> TRUE, COHERE_API_KEY |-> TRUE, HUGGINGFACE_API_KEY |-> TRUE],
     [OPENAI_API_KEY |-> TRUE, COHERE_API_KEY |-> FALSE, HUGGINGFACE_API_KEY |-> FALSE],
     [OPENAI_API_KEY |-> FALSE, COHERE_API_KEY |-> TRUE, HUGGINGFACE_API_KEY |-> FALSE]}

\* The length of the vectors each remote provider returns.  OpenAI's
\* text-embedding-ada-002 returns 1536 components; what the Cohere service
\* returns for the configured name is not fixed by the repository.
Providers(s) ==
    {(ADA :> 1536) @@ (COHERE :> d) :
        d \in IF s.COHERE_API_KEY THEN {1024, 1536} ELSE {1024}}

\* whether get_embedding reaches a provider for this model
Remote(ms, model_name) ==
    model_name \in DOMAIN ms /\ ms[model_name] \in {"openai", "cohere"}

\* the provider call that fails in a search over n documents: none (0), or
\* one of the n + 1 calls; a model that reaches no provider has no choice
FailPoints(ms, model_name, n) == IF Remote(ms, model_name) THEN 0..(n + 1) ELSE {0}

\* in a comparison: none, the first call, or the last (the query's)
CompareFailPoints(ms, model_name, n) ==
    IF Remote(ms, model_name) THEN {0, 1, n + 1} ELSE {0}

\* the environment's choices for a comparison over the list names
CompareFails(ms, names, n) ==
    {f \in [1..Len(names) -> 0..(n + 1)] :
        \A i \in 1..Len(names) : f[i] \in CompareFailPoints(ms, names[i], n)}

-----------------------------------------------------------------------------
(* State machine of the in-memory index: one call of search_faiss or       *)
(* compare_models.  Neither reads or writes state that outlives the call,  *)
(* so the call's inputs are drawn in the initial state.                    *)

Outcome(r) ==
    IF r.status = "return"
    THEN [status |-> "return", value |-> r.value]
    ELSE [status |-> "raise", error |-> r.error]

Start ==
    /\ settings \in Configs
    /\ models = initialize_models(settings)
    /\ provider \in Providers(settings)
    /\ queries = <<>>
    /\ answers = <<>>
    /\ uuids = 0
    /\ ret = <<>>
    /\ calls = <<>>
    /\ accesses = <<>>

InitIndex ==
    /\ Start
    /\ documents = <<>>
    /\ pc = "call"
    /\ \/ /\ op = "search_faiss"
          /\ \E docs \in Corpora, query \in Texts, model_name \in InputModels, top_k \in TopKs :
                /\ args = [documents |-> docs, query |-> query,
                           model_name |-> model_name, top_k |-> top_k]
                /\ env \in FailPoints(models, model_name, Len(docs))
       \/ /\ op = "compare_models"
          /\ \E docs \in CompareCorpora, query \in Texts, model_names \in ModelLists :
                /\ args = [documents |-> docs, query |-> query, model_names |-> model_names]
                /\ env \in CompareFails(models, NamesOf(model_names), Len(docs))

\* the call completes with outcome r
Complete(r) ==
    /\ ret' = Outcome(r)
    /\ calls' = r.calls
    /\ pc' = "done"

SearchFaiss ==
    /\ pc = "call" /\ op = "search_faiss"
    /\ Complete(search_faiss(args.documents, args.query, args.model_name, args.top_k, env))
    /\ UNCHANGED <<accesses, settings, models, provider, documents, queries, answers, uuids, op, args, env>>

CompareModels ==
    /\ pc = "call" /\ op = "compare_models"
    /\ Complete(compare_models(args.documents, args.query, args.model_names, env))
    /\ UNCHANGED <<accesses, settings, models, provider, documents, queries, answers, uuids, op, args, env>>

NextIndex == SearchFaiss \/ CompareModels

SpecIndex == InitIndex /\ [][NextIndex]_vars

-----------------------------------------------------------------------------
(* The persistent store: VectorSearch.search_pgvector *)

\* a NULL embedding column
NULL == [dim |-> 0, head |-> <<0, 0>>]

\* the value of 1 - (embedding <=> :embedding) when a norm is zero
NAN == [num |-> 0, den |-> 0]

\* 1 - (embedding <=> :embedding): the cosine of the two vectors
PgSimilarity(u, v) ==
    IF Dot(u.head, u.head) * Dot(v.head, v.head) = 0 THEN NAN
    ELSE [num |-> Dot(u.head, v.head), den |-> Dot(u.head, u.head) * Dot(v.head, v.head)]

\* an ORDER BY that sorts by ascending similarity
PgBefore_Ascending(a, b) ==
    IF a = NAN THEN FALSE ELSE IF b = NAN THEN TRUE ELSE SimLess(a, b)

\* ORDER BY embedding <=> :embedding: a sorts strictly before b (ascending
\* distance is descending similarity; NaN sorts after every number)
PgBefore(a, b) ==
    IF a = NAN THEN FALSE ELSE IF b = NAN THEN TRUE ELSE SimLess(b, a)

\* WHERE embedding IS NOT NULL: the positions of the eligible rows
Eligible(rows) == {i \in 1..Len(rows) : rows[i].embedding # NULL}

\* The orders in which the store may return the eligible rows for the query
\* vector q: any order that is ascending in distance (the order of rows at
\* equal distance is not fixed by the statement).
PgOrders(rows, q) ==
    LET el == Eligible(rows)
        sim(i) == PgSimilarity(rows[i].embedding, q)
    IN  {f \in [1..Cardinality(el) -> el] :
            /\ \A i, j \in DOMAIN f : i # j => f[i] # f[j]
            /\ \A i, j \in DOMAIN f : i < j => ~PgBefore(sim(f[j]), sim(f[i]))}

\* search_pgvector(db, query, model_name, top_k).  order is the store's choice
\* among PgOrders.  The operator <=> raises when its operands differ in length.
\* compared: the rows the distance operator was applied to.
search_pgvector(rows, query, model_name, top_k, provider_ok, order) ==
    LET qe == get_embedding(query, model_name, provider_ok)
        made == IF qe.called THEN <<[model |-> model_name, text |-> query]>> ELSE <<>>
    IN
    IF ~qe.ok
    THEN [status |-> "raise", error |-> qe.error, calls |-> made, compared |-> {}]
    ELSE IF \E i \in Eligible(rows) : rows[i].embedding.dim # qe.vector.dim
    THEN [status |-> "raise", error |-> "DataError", calls |-> made,
          query_embedding |-> qe.vector,
          compared |-> {rows[i].id : i \in Eligible(rows)}]
    ELSE [status |-> "return", calls |-> made,
          query_embedding |-> qe.vector,
          compared |-> {rows[i].id : i \in Eligible(rows)},
          value |-> [j \in 1..Min2(top_k, Len(order)) |->
                        [id |-> rows[order[j]].id,
                         content |-> rows[order[j]].content,
                         similarity |-> PgSimilarity(rows[order[j]].embedding, qe.vector)]]]

-----------------------------------------------------------------------------
(* State machine of the service: the handlers that read and write the     *)
(* tables.  Each handler runs as one step.                                 *)

StoreTexts == {"z", "a", "b"}

\* the files uploaded: extension, size in bytes, and the text the extractor
\* yields ("" when it finds none, "error" when it raises)
Extensions == {".pdf", ".txt"}

FileSizes == {MAX_FILE_SIZE, MAX_FILE_SIZE + 1}

Extracted == StoreTexts \cup {"", "error"}

\* the documents table at start: empty, or holding a row that was stored
\* without an embedding (the column is nullable)
SeededDocuments ==
    {<<>>, <<[id |-> 0, content |-> "a", embedding |-> NULL, embedded_by |-> "nobody"]>>}

InitStore ==
    /\ Start
    /\ documents \in SeededDocuments
    /\ op = "none"
    /\ pc = "idle"
    /\ args = <<>>
    /\ env = <<>>

\* an upload that does not look at the size of the file
UploadError_NoSizeCheck(ext, size, content, e) ==
    IF ext \notin ALLOWED_EXTENSIONS THEN "extension"
    ELSE IF content = "error" THEN "extraction"
    ELSE IF content = "" THEN "empty"
    ELSE IF ~e.ok THEN e.error
    ELSE IF e.vector.dim # VECTOR_COLUMN_DIM THEN "DataError"
    ELSE ""

\* The check of upload_file that rejects the file ("" when none does), in
\* program order: extension (lines 51-55), size (58-62), text extraction
\* (65-70), empty text (72-73), the embedding e (76-79), the insert (90-91:
\* the column takes vectors of VECTOR_COLUMN_DIM components only).
UploadError(ext, size, content, e) ==
    IF ext \notin ALLOWED_EXTENSIONS THEN "extension"
    ELSE IF size > MAX_FILE_SIZE THEN "size"
    ELSE IF content = "error" THEN "extraction"
    ELSE IF content = "" THEN "empty"
    ELSE IF ~e.ok THEN e.error
    ELSE IF e.vector.dim # VECTOR_COLUMN_DIM THEN "DataError"
    ELSE ""

\* POST /upload/
upload_file ==
    /\ Len(documents) < MaxDocuments
    /\ uuids + 1 <= MaxUuids
    /\ \E ext \in Extensions, size \in FileSizes, content \in Extracted, provider_ok \in BOOLEAN :
        LET e == get_embedding(content, DEFAULT_EMBEDDING_MODEL, provider_ok)
            made == IF e.called
                    THEN <<[model |-> DEFAULT_EMBEDDING_MODEL, text |-> content]>>
                    ELSE <<>>
            checked == ext \in ALLOWED_EXTENSIONS /\ size <= MAX_FILE_SIZE
                       /\ content \notin {"", "error"}
            error == UploadError(ext, size, content, e)
        IN  /\ op' = "upload_file"
            /\ pc' = "done"
            /\ args' = [extension |-> ext, size |-> size, content |-> content]
            /\ env' = [provider_ok |-> provider_ok]
            /\ calls' = IF checked THEN made ELSE <<>>
            /\ IF error = ""
               THEN /\ documents' = Append(documents,
                                       [id |-> uuids + 1, content |-> content,
                                        embedding |-> e.vector,
                                        embedded_by |-> DEFAULT_EMBEDDING_MODEL])
                    /\ uuids' = uuids + 1
                    /\ ret' = [status |-> "success", id |-> uuids + 1]
               ELSE /\ UNCHANGED <<documents, uuids>>
                    /\ ret' = [status |-> "error", error |-> error]
            /\ UNCHANGED <<accesses, settings, models, provider, queries, answers>>

\* the store's choices of row order for a question under a model
StoreOrders(rows, question, model_name) ==
    LET qe == get_embedding(question, model_name, TRUE)
    IN  IF qe.ok THEN PgOrders(rows, qe.vector) ELSE {<<>>}

\* an ask that goes on when the store search has raised
FirstFailure_IgnoringSearch(found, qe, llm_ok) ==
    IF ~qe.ok THEN "embedding"
    ELSE IF qe.vector.dim # VECTOR_COLUMN_DIM THEN "query"
    ELSE IF ~llm_ok THEN "llm"
    ELSE ""

\* The step of ask_question at which the request fails ("" when none does):
\* 1. search_pgvector, 2. get_embedding, 3. the Query row (its column takes
\* vectors of VECTOR_COLUMN_DIM components only), 4. generate_llm_response.
\* Every exception leaves the handler through its except clauses.
FirstFailure(found, qe, llm_ok) ==
    IF found.status = "raise" THEN "search"
    ELSE IF ~qe.ok THEN "embedding"
    ELSE IF qe.vector.dim # VECTOR_COLUMN_DIM THEN "query"
    ELSE IF ~llm_ok THEN "llm"
    ELSE ""

\* the error the handler reports for a failure at the step
AskError(step, found, qe) ==
    CASE step = "search" -> found.error
      [] step = "embedding" -> qe.error
      [] step = "query" -> "DataError"
      [] step = "llm" -> "LLMError"

\* lines 129-136: the Query row is committed when steps 1-3 have succeeded
StoresQuery(step) == step \in {"llm", ""}

\* an ask that commits the Answer row whatever generate_llm_response did
StoresAnswer_Always(step) == step \in {"llm", ""}

\* lines 142-150: the Answer row is committed when step 4 has succeeded too
StoresAnswer(step) == step = ""

\* POST /qa/ask.  failAt: the provider call of this request that fails (0:
\* none); llm_ok: whether generate_llm_response returns.
ask_question ==
    /\ Len(queries) < MaxQueries
    /\ uuids + 2 <= MaxUuids
    /\ \E question \in StoreTexts, model_name \in InputModels,
          failAt \in 0..2, llm_ok \in BOOLEAN :
       \E order \in StoreOrders(documents, question, model_name) :
        LET \* 1. relevant_docs = search_pgvector(...)
            found == search_pgvector(documents, question, model_name, TOP_K_RESULTS,
                                     failAt # 1, order)
            \* 2. question_embedding = get_embedding(...)
            qe == get_embedding(question, model_name, failAt # Len(found.calls) + 1)
            made == IF qe.called
                    THEN Append(found.calls, [model |-> model_name, text |-> question])
                    ELSE found.calls
            about == [status |-> found.status, compared |-> found.compared,
                      error |-> IF found.status = "raise" THEN found.error ELSE "",
                      value |-> IF found.status = "return" THEN found.value ELSE <<>>,
                      query_dim |-> IF found.status = "return" \/ found.error = "DataError"
                                    THEN found.query_embedding.dim ELSE 0]
            step == FirstFailure(found, qe, llm_ok)
        IN  /\ op' = "ask_question"
            /\ pc' = "done"
            /\ args' = [question |-> question, model_name |-> model_name]
            /\ env' = [failAt |-> failAt, llm_ok |-> llm_ok]
            /\ UNCHANGED <<accesses, settings, models, provider, documents>>
            /\ calls' = IF step = "search" THEN found.calls ELSE made
            /\ queries' = IF StoresQuery(step)
                          THEN Append(queries, [id |-> uuids + 1, question |-> question,
                                                embedding |-> qe.vector])
                          ELSE queries
            /\ answers' = IF StoresAnswer(step)
                          THEN Append(answers, [id |-> uuids + 2, question_id |-> uuids + 1,
                                                embedding |-> qe.vector])
                          ELSE answers
            /\ uuids' = uuids + (IF StoresQuery(step) THEN 1 ELSE 0)
                              + (IF StoresAnswer(step) THEN 1 ELSE 0)
            /\ ret' = IF step = ""
                      THEN [status |-> "success", question_id |-> uuids + 1,
                            answer_id |-> uuids + 2, search |-> about]
                      ELSE [status |-> "error", step |-> step,
                            error |-> AskError(step, found, qe), search |-> about]

NextStore == upload_file \/ ask_question

SpecStore == InitStore /\ [][NextStore]_vars

-----------------------------------------------------------------------------
(* State machine of one call of search_pgvector over a documents table.    *)
(* The call reads the table and writes nothing, so its inputs, the table   *)
(* included, are drawn in the initial state.                               *)

\* a row of documents as upload_file stores it
StoredRow(id, content) ==
    [id |-> id, content |-> content,
     embedding |-> [dim |-> VECTOR_COLUMN_DIM, head |-> ProviderHead("openai", content)],
     embedded_by |-> DEFAULT_EMBEDDING_MODEL]

\* a row stored without an embedding
NullRow(id) == [id |-> id, content |-> "a", embedding |-> NULL, embedded_by |-> "nobody"]

\* the tables of at most MaxRows rows; a row's id is its position
PgTables ==
    {[i \in 1..Len(t) |-> IF t[i] = "null" THEN NullRow(i) ELSE StoredRow(i, t[i])] :
        t \in SeqsUpTo(Texts \cup {"null"}, MaxRows)}

InitPg ==
    /\ Start
    /\ documents \in PgTables
    /\ pc = "call"
    /\ op = "search_pgvector"
    /\ \E query \in Texts, model_name \in InputModels, top_k \in TopKs :
          /\ args = [query |-> query, model_name |-> model_name, top_k |-> top_k]
          /\ \E provider_ok \in BOOLEAN, order \in StoreOrders(documents, query, model_name) :
                env = [provider_ok |-> provider_ok, order |-> order]

\* the call completes with outcome r
CompletePg(r) ==
    /\ ret' = IF r.status = "return"
              THEN [status |-> "return", value |-> r.value,
                    query_embedding |-> r.query_embedding]
              ELSE [status |-> "raise", error |-> r.error]
    /\ calls' = r.calls
    /\ pc' = "done"

\* a search that clears the table it has read
SearchPgvector_Purging ==
    /\ pc = "call" /\ op = "search_pgvector"
    /\ CompletePg(search_pgvector(documents, args.query, args.model_name, args.top_k,
                                  env.provider_ok, env.order))
    /\ documents' = <<>>
    /\ UNCHANGED <<accesses, settings, models, provider, queries, answers, uuids, op, args, env>>

SearchPgvector ==
    /\ pc = "call" /\ op = "search_pgvector"
    /\ CompletePg(search_pgvector(documents, args.query, args.model_name, args.top_k,
                                  env.provider_ok, env.order))
    /\ UNCHANGED <<accesses, settings, models, provider, documents, queries, answers, uuids, op, args, env>>

NextPg == SearchPgvector

SpecPg == InitPg /\ [][NextPg]_vars

-----------------------------------------------------------------------------
(* State machine of one call of EmbeddingGenerator.get_embedding *)

\* the texts embedded: those of the searches and the empty string
EmbedTexts == Texts \cup {""}

\* every model id of the configuration, and one that is none of them
EmbedModels == DOMAIN EMBEDDING_DIMENSIONS \cup {UNREGISTERED}

\* the keys of EmbeddingGenerator.models in insertion order
RegistrationOrder == <<ADA, COHERE, BGE_LARGE, BGE_BASE, E5_LARGE, E5_BASE, MINILM>>

ModelKeys(ms) ==
    LET Registered(m) == m \in DOMAIN ms
    IN  SelectSeq(RegistrationOrder, Registered)

\* the keys of settings.EMBEDDING_DIMENSIONS in insertion order
DimensionItems == <<ADA, BGE_LARGE, BGE_BASE, E5_LARGE, E5_BASE, MINILM, COHERE>>

RECURSIVE ListRegistered(_, _, _)
\* "for model_name in available_models"
ListRegistered(available_models, i, model_info) ==
    IF i > Len(available_models) THEN model_info
    ELSE ListRegistered(available_models, i + 1,
                        DictSet(model_info, available_models[i],
                                [dimension |-> get_dimension(available_models[i]),
                                 available |-> TRUE]))

RECURSIVE ListSupported(_, _, _, _)
\* "for model_name, dimension in settings.EMBEDDING_DIMENSIONS.items()"
ListSupported(available_models, items, i, model_info) ==
    IF i > Len(items) THEN model_info
    ELSE ListSupported(available_models, items, i + 1,
            IF DictHas(model_info, items[i]) THEN model_info
            ELSE DictSet(model_info, items[i],
                         [dimension |-> EMBEDDING_DIMENSIONS[items[i]],
                          available |-> \E j \in 1..Len(available_models) :
                                            available_models[j] = items[i]]))

\* GET /embedding-test/available-models: the "data" of the response
get_available_models ==
    ListSupported(ModelKeys(models), DimensionItems, 1,
                  ListRegistered(ModelKeys(models), 1, <<>>))

InitEmbed ==
    /\ Start
    /\ documents = <<>>
    /\ pc = "call"
    /\ \/ /\ op = "get_embedding"
          /\ \E text \in EmbedTexts, model_name \in EmbedModels :
                args = [text |-> text, model_name |-> model_name]
          /\ \E provider_ok \in BOOLEAN : env = [provider_ok |-> provider_ok]
       \/ /\ op = "get_available_models"
          /\ args = <<>>
          /\ env = <<>>

\* the call completes with outcome e
CompleteEmbed(e) ==
    /\ ret' = IF e.ok THEN [status |-> "return", value |-> e.vector]
              ELSE [status |-> "raise", error |-> e.error]
    /\ calls' = CallsWith(<<>>, e, args.model_name, args.text)
    /\ pc' = "done"

GetEmbedding ==
    /\ pc = "call" /\ op = "get_embedding"
    /\ CompleteEmbed(get_embedding(args.text, args.model_name, env.provider_ok))
    /\ UNCHANGED <<accesses, settings, models, provider, documents, queries, answers, uuids, op, args, env>>

GetAvailableModels ==
    /\ pc = "call" /\ op = "get_available_models"
    /\ ret' = [status |-> "return", value |-> get_available_models]
    /\ calls' = <<>>
    /\ pc' = "done"
    /\ UNCHANGED <<accesses, settings, models, provider, documents, queries, answers, uuids, op, args, env>>

NextEmbed == GetEmbedding \/ GetAvailableModels

SpecEmbed == InitEmbed /\ [][NextEmbed]_vars

-----------------------------------------------------------------------------
(* State machine of two get_embedding calls in flight at once on the       *)
(* process-wide EmbeddingGenerator (the module-level VectorSearch() of a   *)
(* router).  A call advances statement by statement; accesses records      *)
(* every read and write it makes of state that outlives the call.          *)

Callers == {1, 2}

ConcurrentTexts == {"a", "b"}

Access(c, access, attribute) == [caller |-> c, access |-> access, attribute |-> attribute]

\* an hf branch running on an EmbeddingGenerator whose __init__ had created
\* the cache: the model is looked up, and stored when it is not there
LocalModel_Initialised(c, model_name) ==
    [accesses |-> <<Access(c, "read", "_hf_models"), Access(c, "write", "_hf_models")>>,
     outcome |-> [status |-> "raise", error |-> "AttributeError"]]

\* the hf branch (lines 65-70): "model_name not in self._hf_models" reads an
\* attribute that no statement of the class creates, and raises
LocalModel(c, model_name) ==
    [accesses |-> <<Access(c, "read", "_hf_models")>>,
     outcome |-> [status |-> "raise", error |-> "AttributeError"]]

InitConcurrent ==
    /\ Start
    /\ documents = <<>>
    /\ op = "get_embedding x2"
    /\ pc = [c \in Callers |-> "start"]
    /\ args \in [Callers -> [text : ConcurrentTexts, model_name : EmbedModels]]
    /\ env \in [Callers -> [provider_ok : BOOLEAN]]

\* lines 46-49: the model is looked up in self.models
Lookup(c) ==
    /\ op = "get_embedding x2" /\ pc[c] = "start"
    /\ accesses' = Append(accesses, Access(c, "read", "models"))
    /\ IF args[c].model_name \notin DOMAIN models
       THEN /\ pc' = [pc EXCEPT ![c] = "done"]
            /\ ret' = [k \in (DOMAIN ret) \cup {c} |->
                          IF k = c THEN [status |-> "raise", error |-> "ValueError"]
                          ELSE ret[k]]
       ELSE /\ pc' = [pc EXCEPT ![c] = models[args[c].model_name]]
            /\ UNCHANGED ret
    /\ UNCHANGED <<settings, models, provider, documents, queries, answers, uuids,
                   op, args, env, calls>>

\* the outcome of a remote branch
RemoteOutcome(c) ==
    IF env[c].provider_ok
    THEN [status |-> "return",
          value |-> ProviderVector(args[c].model_name, models[args[c].model_name],
                                   args[c].text)]
    ELSE [status |-> "raise", error |-> "ProviderError"]

\* lines 51-56: openai.Embedding.create, which reads the module's api_key
CallOpenAI(c) ==
    /\ op = "get_embedding x2" /\ pc[c] = "openai"
    /\ accesses' = Append(accesses, Access(c, "read", "openai.api_key"))
    /\ calls' = Append(calls, [model |-> args[c].model_name, text |-> args[c].text])
    /\ ret' = [k \in (DOMAIN ret) \cup {c} |-> IF k = c THEN RemoteOutcome(c) ELSE ret[k]]
    /\ pc' = [pc EXCEPT ![c] = "done"]
    /\ UNCHANGED <<settings, models, provider, documents, queries, answers, uuids,
                   op, args, env>>

\* lines 58-63: self.cohere_client.embed
CallCohere(c) ==
    /\ op = "get_embedding x2" /\ pc[c] = "cohere"
    /\ accesses' = Append(accesses, Access(c, "read", "cohere_client"))
    /\ calls' = Append(calls, [model |-> args[c].model_name, text |-> args[c].text])
    /\ ret' = [k \in (DOMAIN ret) \cup {c} |-> IF k = c THEN RemoteOutcome(c) ELSE ret[k]]
    /\ pc' = [pc EXCEPT ![c] = "done"]
    /\ UNCHANGED <<settings, models, provider, documents, queries, answers, uuids,
                   op, args, env>>

\* lines 65-70: the hf branch
LoadLocal(c) ==
    /\ op = "get_embedding x2" /\ pc[c] = "hf"
    /\ accesses' = accesses \o LocalModel(c, args[c].model_name).accesses
    /\ ret' = [k \in (DOMAIN ret) \cup {c} |->
                  IF k = c THEN LocalModel(c, args[c].model_name).outcome ELSE ret[k]]
    /\ pc' = [pc EXCEPT ![c] = "done"]
    /\ UNCHANGED <<settings, models, provider, documents, queries, answers, uuids,
                   op, args, env, calls>>

NextConcurrent ==
    \E c \in Callers : Lookup(c) \/ CallOpenAI(c) \/ CallCohere(c) \/ LoadLocal(c)

SpecConcurrent == InitConcurrent /\ [][NextConcurrent]_vars

-----------------------------------------------------------------------------
(* State machine of compare_models taken one loop iteration at a time.     *)
(* An iteration ends when its provider calls have returned or raised: the  *)
(* code passes no timeout of its own, and a call that the client library   *)
(* gives up on (its request timeout) raises like any other failed call;    *)
(* that is the "ProviderError" of get_embedding.                           *)

\* a loop that gives the rest of the list up after an error entry
CompareAdvance_Aborting(r, model_name, e) ==
    [status |-> "running",
     at |-> IF e.entry.kind = "error" THEN r.at + MaxModels + 3 ELSE r.at + 1,
     results |-> DictSet(r.results, model_name, e.entry)]

\* the loop's state after the iteration that produced e for model_name
CompareAdvance(r, model_name, e) ==
    [status |-> "running", at |-> r.at + 1,
     results |-> DictSet(r.results, model_name, e.entry)]

InitCompare ==
    /\ Start
    /\ documents = <<>>
    /\ pc = "idle"
    /\ op = "compare_models (loop)"
    /\ args = <<>>
    /\ env = <<>>

\* The call, with its arguments and the environment's choices, and lines
\* 169-172.  What the search of each model of the list will yield is a
\* function of the arguments and of those choices: it is fixed here
\* (env.outcomes) and taken up by the iteration that makes the search.
CompareEnter ==
    /\ pc = "idle" /\ op = "compare_models (loop)"
    /\ \E docs \in CompareCorpora, query \in Texts, model_names \in ModelLists :
       \E fails \in CompareFails(models, NamesOf(model_names), Len(docs)) :
          /\ args' = [documents |-> docs, query |-> query, model_names |-> model_names]
          /\ env' = [fails |-> fails,
                     outcomes |->
                        [i \in 1..Len(NamesOf(model_names)) |->
                            CompareEntry(NamesOf(model_names)[i],
                                         search_faiss(docs, query, NamesOf(model_names)[i],
                                                      DEFAULT_TOP_K, fails[i]))]]
    /\ ret' = [status |-> "running", at |-> 1, results |-> <<>>]
    /\ pc' = "loop"
    /\ UNCHANGED <<accesses, settings, models, provider, documents, queries, answers, uuids,
                   op, calls>>

\* the iteration ends with e
CompareIterate(e) ==
    /\ calls' = calls \o e.calls
    /\ IF e.uncaught # ""
       THEN /\ ret' = [status |-> "raise", error |-> e.uncaught]
            /\ pc' = "done"
       ELSE /\ ret' = CompareAdvance(ret, NamesOf(args.model_names)[ret.at], e)
            /\ UNCHANGED pc

\* lines 174-182: one iteration
CompareIteration ==
    /\ pc = "loop" /\ op = "compare_models (loop)"
    /\ ret.at <= Len(NamesOf(args.model_names))
    /\ CompareIterate(env.outcomes[ret.at])
    /\ UNCHANGED <<accesses, settings, models, provider, documents, queries, answers, uuids,
                   op, args, env>>

\* line 184
CompareReturn ==
    /\ pc = "loop" /\ op = "compare_models (loop)"
    /\ ret.at > Len(NamesOf(args.model_names))
    /\ ret' = [status |-> "return", value |-> ret.results]
    /\ pc' = "done"
    /\ UNCHANGED <<accesses, settings, models, provider, documents, queries, answers, uuids,
                   op, args, env, calls>>

NextCompare == CompareEnter \/ CompareIteration \/ CompareReturn

\* every statement of the loop is eventually executed: no call blocks for ever
SpecCompare == InitCompare /\ [][NextCompare]_vars /\ WF_vars(NextCompare)

-----------------------------------------------------------------------------
(* State machine of the question history: requests to ask and to delete    *)
(* a question, in any order.  The handlers are coroutines without an       *)
(* await, run by one event loop (main.py: uvicorn.run(app), one process):  *)
(* a request runs from its first line to its response before the next one  *)
(* starts, so each is one step.                                            *)

\* the ids a delete request names: every id ask can have issued
QuestionIds == 1..MaxUuids

\* a delete that leaves the answers of the question in place
DeleteAnswers_None(rows, question_id) == rows

\* lines 233-235: every Answer row with this question_id is deleted
DeleteAnswers(rows, question_id) ==
    LET keep == {i \in 1..Len(rows) : rows[i].question_id # question_id}
        slot(j) == CHOOSE i \in keep : Cardinality({x \in keep : x < i}) = j - 1
    IN  [j \in 1..Cardinality(keep) |-> rows[slot(j)]]

\* lines 238-240: the Query row with this id, if there is one, is deleted
DeleteQuery(rows, question_id) ==
    LET keep == {i \in 1..Len(rows) : rows[i].id # question_id}
        slot(j) == CHOOSE i \in keep : Cardinality({x \in keep : x < i}) = j - 1
    IN  [j \in 1..Cardinality(keep) |-> rows[slot(j)]]

\* DELETE /history/qa/{question_id}, for a well-formed id: the deletions are
\* committed together (line 242) and the response is a success whether or
\* not a row was found
delete_qa_from_history ==
    /\ \E question_id \in QuestionIds :
          /\ args' = [question_id |-> question_id]
          /\ answers' = DeleteAnswers(answers, question_id)
          /\ queries' = DeleteQuery(queries, question_id)
    /\ op' = "delete_qa_from_history"
    /\ pc' = "done"
    /\ env' = <<>>
    /\ calls' = <<>>
    /\ ret' = [status |-> "success"]
    /\ UNCHANGED <<accesses, settings, models, provider, documents, uuids>>

InitHistory == InitStore

NextHistory == ask_question \/ delete_qa_from_history

SpecHistory == InitHistory /\ [][NextHistory]_vars

-----------------------------------------------------------------------------
(* State machine of a repeated call: search_faiss or compare_models is     *)
(* called twice with the same arguments on the same VectorSearch object.   *)
(* ret is the list of the outcomes, env the list of the environment's      *)
(* choices for the two calls.                                              *)

RepeatCorpora == SeqsUpTo(Texts, MaxRepeatCorpus)

\* an index that is kept on the object and added to by every call
IndexContents_Kept(kept, docs) == kept \o docs

\* Lines 137-138: the index is a local of the call, created empty and given
\* this call's vectors; kept, what earlier calls indexed, is not in it.
IndexContents(kept, docs) == docs

InitRepeat ==
    /\ Start
    /\ documents = <<>>
    /\ pc = "first"
    /\ env = <<>>
    /\ \/ /\ op = "search_faiss x2"
          /\ \E docs \in RepeatCorpora, query \in Texts, model_name \in InputModels,
                top_k \in TopKs :
                args = [documents |-> docs, query |-> query,
                        model_name |-> model_name, top_k |-> top_k]
       \/ /\ op = "compare_models x2"
          /\ \E docs \in CompareCorpora, query \in Texts, model_names \in ModelLists :
                args = [documents |-> docs, query |-> query, model_names |-> model_names]

\* what the calls made so far have indexed
Indexed == IF pc = "second" /\ ret[1].status = "return" THEN args.documents ELSE <<>>

\* one of the two calls completes with outcome r, the environment having chosen f
CompleteRepeat(f, r) ==
    /\ env' = Append(env, f)
    /\ ret' = Append(ret, Outcome(r))
    /\ calls' = calls \o r.calls
    /\ pc' = IF pc = "first" THEN "second" ELSE "done"

RepeatSearch ==
    /\ pc \in {"first", "second"} /\ op = "search_faiss x2"
    /\ \E f \in FailPoints(models, args.model_name, Len(args.documents)) :
          CompleteRepeat(f, search_faiss(IndexContents(Indexed, args.documents), args.query,
                                         args.model_name, args.top_k, f))
    /\ UNCHANGED <<accesses, settings, models, provider, documents, queries, answers, uuids,
                   op, args>>

RepeatCompare ==
    /\ pc \in {"first", "second"} /\ op = "compare_models x2"
    /\ \E f \in CompareFails(models, NamesOf(args.model_names), Len(args.documents)) :
          CompleteRepeat(f, compare_models(IndexContents(Indexed, args.documents), args.query,
                                           args.model_names, f))
    /\ UNCHANGED <<accesses, settings, models, provider, documents, queries, answers, uuids,
                   op, args>>

NextRepeat == RepeatSearch \/ RepeatCompare

SpecRepeat == InitRepeat /\ [][NextRepeat]_vars

Next ==
    NextIndex \/ NextStore \/ NextPg \/ NextEmbed \/ NextConcurrent \/ NextCompare
    \/ NextRepeat \/ NextHistory

Spec ==
    (InitIndex \/ InitStore \/ InitPg \/ InitEmbed \/ InitConcurrent \/ InitCompare
     \/ InitRepeat \/ InitHistory)
    /\ [][Next]_vars

-----------------------------------------------------------------------------
(* Properties of the in-memory index *)

SearchDone == pc = "done" /\ op = "search_faiss"

CompareDone == pc = "done" /\ op = "compare_models"

\* the provider answers every call of the search, with vectors of the
\* model's registered length
Healthy(model_name, failAt) ==
    /\ Remote(models, model_name)
    /\ failAt = 0
    /\ provider[model_name] = get_dimension(model_name)

\* the similarity search_faiss computes between a document and the query
TextSimilarity(model_name, doc, query) ==
    InnerProduct(normalize_L2(ProviderVector(model_name, models[model_name], doc)),
                 normalize_L2(ProviderVector(model_name, models[model_name], query)))

\* i is the last position of its model id in the list
LastOccurrence(names, i) == \A j \in (i + 1)..Len(names) : names[j] # names[i]

\* the ids of a list in the order of their first occurrence
FirstOccurrences(names) ==
    LET firsts == {i \in 1..Len(names) : \A j \in 1..(i - 1) : names[j] # names[i]}
        nth(k) == CHOOSE i \in firsts : Cardinality({x \in firsts : x < i}) = k - 1
    IN  [k \in 1..Cardinality(firsts) |-> names[nth(k)]]

\* C1: compare_models never raises.  Its result holds, for every model id of
\* the list, an error entry when the model is unregistered or one of its
\* embeddings was not obtained, and otherwise (the model is registered and all
\* len(documents) + 1 embeddings were obtained) the hits of that model's own
\* search, whatever happened to the other models of the list.
C1_CompareIsolatesFailures ==
    CompareDone =>
        /\ ret.status = "return"
        /\ LET names == NamesOf(args.model_names)
           IN  \A i \in 1..Len(names) :
                 LastOccurrence(names, i) =>
                    LET own == search_faiss(args.documents, args.query, names[i],
                                            DEFAULT_TOP_K, env[i])
                        obtained == /\ names[i] \in DOMAIN models
                                    /\ Len(own.calls) = Len(args.documents) + 1
                                    /\ env[i] = 0
                        entry == DictGet(ret.value, names[i])
                    IN  /\ DictHas(ret.value, names[i])
                        /\ obtained => entry.kind = "hits" /\ entry.hits = own.value
                        /\ ~obtained => entry.kind = "error"

\* C1 witness: a list of a failing model followed by a working one; the
\* working one still has its hits
C1_Witness ==
    /\ CompareDone
    /\ Len(NamesOf(args.model_names)) = 2
    /\ args.model_names[1] = COHERE /\ args.model_names[2] = ADA
    /\ env[1] = 1 /\ env[2] = 0
    /\ Len(args.documents) >= 1
    /\ DictGet(ret.value, COHERE).kind = "error"
    /\ DictGet(ret.value, ADA).kind = "hits"
    /\ Len(calls) = 1 + Len(args.documents) + 1

\* C2: over a corpus of 1 <= n < top_k documents search_faiss raises nothing
\* and returns exactly n hits, none of them for an unfilled slot.
C2_ShortCorpusReturnsCorpusSize ==
    (/\ SearchDone
     /\ Len(args.documents) >= 1
     /\ Len(args.documents) < args.top_k
     /\ Healthy(args.model_name, env))
    => /\ ret.status = "return"
       /\ Len(ret.value) = Len(args.documents)
       /\ \A i \in 1..Len(ret.value) : ret.value[i].index \in 0..(Len(args.documents) - 1)

\* C3: over an empty corpus search_faiss returns the empty list, and
\* compare_models reports zero hits for every registered model.
C3_EmptyCorpusReturnsEmpty ==
    /\ (SearchDone /\ args.documents = <<>> /\ Healthy(args.model_name, env))
        => (ret.status = "return" /\ ret.value = <<>>)
    /\ (CompareDone /\ args.documents = <<>>)
        => \A i \in 1..Len(NamesOf(args.model_names)) :
              (LastOccurrence(NamesOf(args.model_names), i)
               /\ Healthy(NamesOf(args.model_names)[i], env[i]))
              => DictGet(ret.value, NamesOf(args.model_names)[i])
                    = [kind |-> "hits", hits |-> <<>>]

\* C4: over n >= 1 documents with 1 <= top_k <= n, search_faiss returns (when
\* the provider answers) exactly top_k hits, each similarity in [-1, 1], in
\* non-increasing order of similarity.
C4_TopKHitsInUnitRangeSorted ==
    (/\ SearchDone
     /\ Len(args.documents) >= 1
     /\ args.top_k <= Len(args.documents))
    => /\ Healthy(args.model_name, env) => ret.status = "return"
       /\ ret.status = "return" =>
            /\ Len(ret.value) = args.top_k
            /\ \A i \in 1..Len(ret.value) : SimInUnit(ret.value[i].similarity)
            /\ \A i, j \in 1..Len(ret.value) :
                 i < j => ~SimLess(ret.value[i].similarity, ret.value[j].similarity)

\* C4 witness: two hits out of three documents, the second strictly less
\* similar than the first and negative
C4_Witness ==
    /\ SearchDone /\ ret.status = "return"
    /\ Len(args.documents) = 3 /\ args.top_k = 2
    /\ Len(ret.value) = 2
    /\ SimLess(ret.value[2].similarity, ret.value[1].similarity)
    /\ ret.value[2].similarity.num < 0

\* C8: the result of compare_models has one entry per model id of the list
\* and no other, in the order of the ids' first occurrence in the list.
C8_EntriesInListOrder ==
    CompareDone =>
        /\ ret.status = "return"
        /\ DictKeys(ret.value) = FirstOccurrences(NamesOf(args.model_names))

\* C8 witness: a list that names the same model twice
C8_Witness ==
    /\ CompareDone
    /\ args.model_names = <<ADA, ADA>>
    /\ DictKeys(ret.value) = <<ADA>>

\* C9: no hit of search_faiss refers to a document whose embedding has zero
\* norm.
C9_ZeroNormExcluded ==
    (SearchDone /\ ret.status = "return") =>
        \A i \in 1..Len(ret.value) :
            LET v == ProviderVector(args.model_name, models[args.model_name],
                                    ret.value[i].content)
            IN  Dot(v.head, v.head) > 0

\* C10: among the hits of search_faiss, of two with equal similarity the one
\* with the smaller corpus index comes first, and no document is left out
\* while a document of equal similarity and larger index is returned.
C10_TiesByCorpusIndex ==
    (SearchDone /\ ret.status = "return") =>
        LET hits == ret.value
            real == {i \in 1..Len(hits) : hits[i].index >= 0}
            returned == {hits[i].index : i \in real}
        IN  /\ \A i, j \in real :
                 (i < j /\ SimEq(hits[i].similarity, hits[j].similarity))
                 => hits[i].index < hits[j].index
            /\ \A d \in 0..(Len(args.documents) - 1) : \A i \in real :
                 (d \notin returned
                  /\ SimEq(TextSimilarity(args.model_name, args.documents[d + 1], args.query),
                           hits[i].similarity))
                 => hits[i].index < d

\* the positions (1-based) of the documents at least as similar to the query
\* as the document at position i
AtLeastAsSimilar(model_name, docs, query, i) ==
    {d \in 1..Len(docs) :
        ~SimLess(TextSimilarity(model_name, docs[d], query),
                 TextSimilarity(model_name, docs[i], query))}

\* C11: search_faiss does not deduplicate.  When the same text stands at two
\* positions of the corpus and both are among the top_k (at most top_k
\* documents are at least as similar to the query as they are), the result
\* has exactly one hit for each of the two positions, the two of equal
\* similarity.
C11_DuplicatesKeepOwnHits ==
    (SearchDone /\ ret.status = "return") =>
        \A i, j \in 1..Len(args.documents) :
            (/\ i < j
             /\ args.documents[i] = args.documents[j]
             /\ Cardinality(AtLeastAsSimilar(args.model_name, args.documents,
                                             args.query, i)) <= args.top_k)
            => \E p, q \in 1..Len(ret.value) :
                  /\ p # q
                  /\ ret.value[p].index = i - 1 /\ ret.value[p].content = args.documents[i]
                  /\ ret.value[q].index = j - 1 /\ ret.value[q].content = args.documents[j]
                  /\ SimEq(ret.value[p].similarity, ret.value[q].similarity)
                  /\ \A x \in 1..Len(ret.value) :
                        ret.value[x].index \in {i - 1, j - 1} => x \in {p, q}

\* C11 witness: the query's text twice in a corpus of three, top_k = 2: both
\* copies are returned and the third document is not
C11_Witness ==
    /\ SearchDone /\ ret.status = "return"
    /\ args.documents = <<"a", "b", "a">> /\ args.query = "a" /\ args.top_k = 2
    /\ {ret.value[x].index : x \in 1..Len(ret.value)} = {0, 2}

\* the provider calls a search may make for the i-th model of a comparison:
\* every embedding up to the one that fails
CallLimit(fails, i, n) == IF fails[i] # 0 THEN fails[i] ELSE n + 1

\* C18: no embedding is retried.  search_faiss invokes the provider once per
\* text, documents in order and then the query, and stops at the call that
\* fails, whose error it raises; compare_models makes, for each model, no more
\* calls than its searches need up to their failing calls.
C18_NoRetries ==
    /\ SearchDone =>
          LET texts == args.documents \o <<args.query>>
          IN  /\ Len(calls) <= Len(texts)
              /\ \A k \in 1..Len(calls) :
                    calls[k] = [model |-> args.model_name, text |-> texts[k]]
              /\ env # 0 => Len(calls) <= env
              /\ (env # 0 /\ Len(calls) = env)
                    => ret = [status |-> "raise", error |-> "ProviderError"]
    /\ CompareDone =>
          LET names == NamesOf(args.model_names)
              n == Len(args.documents)
          IN  \A m \in {names[i] : i \in 1..Len(names)} :
                Cardinality({k \in 1..Len(calls) : calls[k].model = m})
                <= Cardinality({x \in (1..Len(names)) \X (1..(n + 1)) :
                                    names[x[1]] = m /\ x[2] <= CallLimit(env, x[1], n)})

\* C18 witness: the second of three provider calls of a search fails; the
\* search raises after exactly two calls
C18_Witness ==
    /\ SearchDone
    /\ Len(args.documents) = 2 /\ env = 2
    /\ Len(calls) = 2
    /\ ret = [status |-> "raise", error |-> "ProviderError"]

\* the comparison has returned an entry for every model of its list, an
\* error entry for each model one of whose provider calls failed
CompareCompleted ==
    /\ pc = "done" /\ ret.status = "return"
    /\ LET names == NamesOf(args.model_names)
       IN  \A i \in 1..Len(names) :
              /\ DictHas(ret.value, names[i])
              /\ (LastOccurrence(names, i) /\ Remote(models, names[i])
                  /\ env.fails[i] # 0 /\ env.fails[i] <= Len(args.documents))
                 => DictGet(ret.value, names[i]).kind = "error"

MaxSimilarity == [num |-> 1, den |-> 1]

\* the hits before position j are all at the largest similarity
LeadingBlock(hits, j) ==
    \A i \in 1..j : SimEq(hits[i].similarity, MaxSimilarity)

\* C24: when search_faiss returns over a corpus that holds the query text,
\* whose embedding is not zero, the first hit has similarity 1, no hit has
\* more, and every position of the corpus that holds the query text is
\* returned among the leading hits tied at 1, unless all top_k hits are tied
\* at 1.  The model's arithmetic is exact, so the tolerance is 0.
C24_DuplicateOfQueryRanksFirst ==
    (/\ SearchDone /\ ret.status = "return"
     /\ \E d \in 1..Len(args.documents) : args.documents[d] = args.query
     /\ Dot(ProviderHead(models[args.model_name], args.query),
            ProviderHead(models[args.model_name], args.query)) > 0)
    => /\ SimEq(ret.value[1].similarity, MaxSimilarity)
       /\ ret.value[1].content = args.query
       /\ \A i \in 1..Len(ret.value) : ~SimLess(MaxSimilarity, ret.value[i].similarity)
       /\ \A d \in 1..Len(args.documents) :
             args.documents[d] = args.query =>
                \/ \E j \in 1..Len(ret.value) :
                      ret.value[j].index = d - 1 /\ LeadingBlock(ret.value, j)
                \/ Len(ret.value) = args.top_k /\ LeadingBlock(ret.value, args.top_k)

\* C24 witness: the query text is the second of three documents, the third
\* is another text; it is returned first with similarity 1, before a hit of
\* smaller similarity
C24_Witness ==
    /\ SearchDone /\ ret.status = "return"
    /\ Len(args.documents) = 3 /\ args.top_k = 2
    /\ args.documents[2] = args.query
    /\ args.documents[1] # args.query /\ args.documents[3] # args.query
    /\ ret.value[1].index = 1
    /\ SimEq(ret.value[1].similarity, MaxSimilarity)
    /\ SimLess(ret.value[2].similarity, MaxSimilarity)

\* C25: every hit search_faiss returns has an index that is a position of
\* the corpus, 0 <= index < len(documents), and the content documents[index].
C25_HitIndexInCorpus ==
    (SearchDone /\ ret.status = "return") =>
        \A i \in 1..Len(ret.value) :
            /\ ret.value[i].index \in 0..(Len(args.documents) - 1)
            /\ ret.value[i].content = args.documents[ret.value[i].index + 1]

\* the provider calls of one search over docs for the model: one per
\* document in corpus order, then one for the query
CallsOfSearch(model_name, docs, query) ==
    [j \in 1..(Len(docs) + 1) |->
        [model |-> model_name, text |-> IF j <= Len(docs) THEN docs[j] ELSE query]]

RECURSIVE CallsOfCompare(_, _, _, _)
\* the provider calls of a comparison from the i-th model of the list on:
\* those of a search for each registered model, none for another
CallsOfCompare(names, docs, query, i) ==
    IF i > Len(names) THEN <<>>
    ELSE (IF names[i] \in DOMAIN models THEN CallsOfSearch(names[i], docs, query) ELSE <<>>)
         \o CallsOfCompare(names, docs, query, i + 1)

\* C26: a comparison in which no provider call fails makes, for each
\* registered model of the list in turn, len(corpus) + 1 provider calls (one
\* per document in corpus order, then the query), a repeated text and a
\* repeated model included, and none for a model that is not registered.
C26_CompareCallsPerModel ==
    (CompareDone /\ \A i \in 1..Len(NamesOf(args.model_names)) : env[i] = 0)
    => calls = CallsOfCompare(NamesOf(args.model_names), args.documents, args.query, 1)

-----------------------------------------------------------------------------
(* Properties of a repeated call *)

HitIndices(hits) == [j \in 1..Len(hits) |-> hits[j].index]

-----------------------------------------------------------------------------
(* Properties of the persistent store and of ask *)

AskDone == pc = "done" /\ op = "ask_question"

RowById(rows, id) == rows[CHOOSE i \in 1..Len(rows) : rows[i].id = id]

\* C5: when the query vector's length differs from the registered dimension
\* of the model, search_pgvector raises DimensionMismatch before the store's
\* distance operator is applied to any row, and returns no list.
C5_DimensionMismatchRaised ==
    (/\ AskDone
     /\ ret.search.query_dim # 0
     /\ ret.search.query_dim # get_dimension(args.model_name))
    => /\ ret.search.status = "raise"
       /\ ret.search.error = "DimensionMismatch"
       /\ ret.search.compared = {}

\* C6: every hit of search_pgvector is a row with a non-null vector embedded
\* under the model of the query, and the distance operator is applied to no
\* row embedded under another model.
C6_OnlySameModelRows ==
    AskDone =>
        /\ \A i \in 1..Len(ret.search.value) :
              LET row == RowById(documents, ret.search.value[i].id)
              IN  row.embedding # NULL /\ row.embedded_by = args.model_name
        /\ \A id \in ret.search.compared :
              RowById(documents, id).embedded_by = args.model_name

\* C7: one ask invokes the embedding provider once for the question.
C7_AskEmbedsOnce ==
    AskDone =>
        /\ Len(calls) <= 1
        /\ ret.status = "success" => Len(calls) = 1

\* C21: ask_question stops at its first failing step and reports that
\* failure.  A failing store search is followed by no second embedding and
\* by no row; a failing query embedding by no row; a failing answer
\* generation by no Answer row; and the response is an error naming the step,
\* a success only when no step failed.
C21_AskStopsAtFirstFailure ==
    [][(op' = "ask_question" /\ pc' = "done") =>
        /\ (env'.failAt = 1 /\ Remote(models, args'.model_name))
              => (ret'.status = "error" /\ ret'.step = "search")
        /\ (env'.failAt = 2 /\ Remote(models, args'.model_name)
            /\ ret'.search.status = "return")
              => (ret'.status = "error" /\ ret'.step = "embedding")
        /\ ret'.status = "success" => (env'.failAt = 0 /\ env'.llm_ok)
        /\ ret'.status = "error" =>
              /\ ret'.step = "search" =>
                    /\ ret'.search.status = "raise" /\ ret'.error = ret'.search.error
                    /\ Len(calls') <= 1
                    /\ queries' = queries /\ answers' = answers
              /\ ret'.step = "embedding" =>
                    /\ ret'.search.status = "return"
                    /\ queries' = queries /\ answers' = answers
              /\ ret'.step = "query" => (queries' = queries /\ answers' = answers)
              /\ ret'.step = "llm" => (~env'.llm_ok /\ answers' = answers)]_vars

\* C21 witness: the search has returned, the second embedding of the question
\* has failed, and the request ended there with an error
C21_Witness ==
    /\ AskDone
    /\ ret.status = "error" /\ ret.step = "embedding" /\ ret.error = "ProviderError"
    /\ Len(calls) = 2
    /\ queries = <<>> /\ answers = <<>>

\* C27: an ask whose store search raises, or whose embedding of the question
\* (the step after the search) fails, changes no table: it adds no Query row
\* and no Answer row, and takes no id.
C27_FailedAskBeforeQueryAddsNoRow ==
    [][(/\ op' = "ask_question" /\ pc' = "done"
        /\ \/ ret'.search.status = "raise"
           \/ ret'.status = "error" /\ ret'.step = "embedding")
       => /\ ret'.status = "error"
          /\ queries' = queries /\ answers' = answers
          /\ documents' = documents /\ uuids' = uuids]_vars

\* C27 witness: over a table that holds an uploaded row, the store search of
\* an ask has raised on the provider's failure, and the tables are as the
\* upload left them
C27_Witness ==
    /\ AskDone
    /\ ret.status = "error" /\ ret.step = "search" /\ ret.error = "ProviderError"
    /\ env.failAt = 1
    /\ \E i \in 1..Len(documents) : documents[i].embedding # NULL
    /\ queries = <<>> /\ answers = <<>>
    /\ uuids = Len(documents) - (IF documents[1].embedding = NULL THEN 1 ELSE 0)

\* C28: the Query row is committed before the answer is generated and the
\* Answer row only after the generation has succeeded.  An ask that ends
\* with the error of the generation has added one Query row, with a new id,
\* and no Answer row, and no Answer row refers to that Query; an ask that
\* succeeds has added exactly one Query row and one Answer row, the Answer's
\* question_id being the Query's id, and reports the two ids.
C28_QueryBeforeAnswer ==
    [][(op' = "ask_question" /\ pc' = "done") =>
        /\ (ret'.status = "error" /\ ret'.step = "llm") =>
              /\ ~env'.llm_ok
              /\ Len(queries') = Len(queries) + 1
              /\ SubSeq(queries', 1, Len(queries)) = queries
              /\ \A i \in 1..Len(queries) : queries[i].id # queries'[Len(queries')].id
              /\ queries'[Len(queries')].question = args'.question
              /\ answers' = answers
              /\ \A i \in 1..Len(answers') :
                    answers'[i].question_id # queries'[Len(queries')].id
        /\ ret'.status = "success" =>
              /\ env'.llm_ok
              /\ Len(queries') = Len(queries) + 1
              /\ SubSeq(queries', 1, Len(queries)) = queries
              /\ Len(answers') = Len(answers) + 1
              /\ SubSeq(answers', 1, Len(answers)) = answers
              /\ answers'[Len(answers')].question_id = queries'[Len(queries')].id
              /\ \A i \in 1..Len(queries) : queries[i].id # queries'[Len(queries')].id
              /\ \A i \in 1..Len(answers) : answers[i].id # answers'[Len(answers')].id
              /\ ret'.question_id = queries'[Len(queries')].id
              /\ ret'.answer_id = answers'[Len(answers')].id]_vars

\* C28 witness: an ask has ended with the error of the answer generation,
\* leaving its Query row and no Answer row
C28_Witness ==
    /\ AskDone
    /\ ret.status = "error" /\ ret.step = "llm"
    /\ Len(queries) = 1 /\ queries[1].question = args.question
    /\ answers = <<>>

-----------------------------------------------------------------------------
(* Properties of upload *)

UploadDone == op = "upload_file" /\ pc = "done"

\* C30: an upload adds a Document row only when every check and the
\* embedding have succeeded.  A file with a disallowed extension, a size
\* above MAX_FILE_SIZE, no extracted text, or whose embedding call fails (or
\* whose default model is not registered) gets an error response and adds no
\* row; the extension and size rejections are made before any embedding
\* call; an error response never comes with a new row; and a success adds
\* exactly one row, whose embedding is not null and is the vector the
\* provider of DEFAULT_EMBEDDING_MODEL gave for the extracted text.
C30_UploadStoresOnlyAfterChecks ==
    [][(op' = "upload_file" /\ pc' = "done") =>
        /\ (\/ args'.extension \notin ALLOWED_EXTENSIONS
            \/ args'.size > MAX_FILE_SIZE
            \/ args'.content \in {"", "error"}
            \/ ~env'.provider_ok
            \/ DEFAULT_EMBEDDING_MODEL \notin DOMAIN models)
           => (ret'.status = "error" /\ documents' = documents /\ uuids' = uuids)
        /\ (args'.extension \notin ALLOWED_EXTENSIONS \/ args'.size > MAX_FILE_SIZE)
           => calls' = <<>>
        /\ ret'.status = "error" => documents' = documents
        /\ ret'.status = "success" =>
              /\ Len(documents') = Len(documents) + 1
              /\ SubSeq(documents', 1, Len(documents)) = documents
              /\ LET row == documents'[Len(documents')]
                 IN  /\ row.embedding # NULL
                     /\ row.embedded_by = DEFAULT_EMBEDDING_MODEL
                     /\ row.content = args'.content
                     /\ row.embedding = ProviderVector(DEFAULT_EMBEDDING_MODEL,
                                                       models[DEFAULT_EMBEDDING_MODEL],
                                                       args'.content)
                     /\ row.id = ret'.id
                     /\ \A i \in 1..Len(documents) : documents[i].id # row.id
              /\ calls' = <<[model |-> DEFAULT_EMBEDDING_MODEL, text |-> args'.content]>>
        /\ queries' = queries /\ answers' = answers]_vars

\* C30 witness: after an upload that stored a row, a file of an allowed
\* extension and a good text but too large has been rejected, with no
\* embedding call and no new row
C30_Witness ==
    /\ UploadDone
    /\ ret.status = "error" /\ ret.error = "size"
    /\ args.extension \in ALLOWED_EXTENSIONS /\ args.content = "a"
    /\ env.provider_ok
    /\ calls = <<>>
    /\ Len(documents) = 1 /\ documents[1].embedding # NULL
    /\ uuids = 1

-----------------------------------------------------------------------------
(* Properties of the question history *)

\* every Answer row refers to a Query row that exists
AnswersHaveQueries ==
    \A i \in 1..Len(answers) : \E j \in 1..Len(queries) : queries[j].id = answers[i].question_id

\* C29: after any sequence of ask and delete requests every Answer row's
\* question_id is the id of a Query row that exists.  A delete request
\* removes, in its one step, the Query row of the id and every Answer row
\* that refers to it, leaves every other row, and responds with a success,
\* also when no row has the id.
C29_AnswersKeepTheirQuery ==
    /\ []AnswersHaveQueries
    /\ [][op' = "delete_qa_from_history" =>
            /\ ret'.status = "success"
            /\ \A j \in 1..Len(queries') : queries'[j].id # args'.question_id
            /\ \A i \in 1..Len(answers') : answers'[i].question_id # args'.question_id
            /\ Len(queries') = Cardinality({j \in 1..Len(queries) :
                                               queries[j].id # args'.question_id})
            /\ Len(answers') = Cardinality({i \in 1..Len(answers) :
                                               answers[i].question_id # args'.question_id})
            /\ documents' = documents]_vars

\* C29 witness: the question of a successful ask, and with it its answer,
\* has been deleted
C29_Witness ==
    /\ op = "delete_qa_from_history" /\ pc = "done"
    /\ args.question_id = 1
    /\ uuids = 2
    /\ queries = <<>> /\ answers = <<>>
    /\ ret.status = "success"

-----------------------------------------------------------------------------
(* Properties of search_pgvector *)

PgDone == pc = "done" /\ op = "search_pgvector"

\* C12: search_pgvector returns min(top_k, eligible rows) hits, at most top_k;
\* each hit's similarity is 1 - cosine distance between its row's vector and
\* the query vector; no hit is more similar than a hit before it; and no
\* eligible row left out is more similar than a hit.
C12_PgTopKByCosine ==
    (PgDone /\ ret.status = "return") =>
        LET hits == ret.value
            sim(id) == PgSimilarity(RowById(documents, id).embedding, ret.query_embedding)
            returned == {hits[i].id : i \in 1..Len(hits)}
        IN  /\ Len(hits) <= args.top_k
            /\ Len(hits) = Min2(args.top_k, Cardinality(Eligible(documents)))
            /\ Cardinality(returned) = Len(hits)
            /\ \A i \in 1..Len(hits) :
                  /\ RowById(documents, hits[i].id).embedding # NULL
                  /\ hits[i].similarity = sim(hits[i].id)
                  /\ hits[i].content = RowById(documents, hits[i].id).content
            /\ \A i, j \in 1..Len(hits) :
                  i < j => ~SimLess(hits[i].similarity, hits[j].similarity)
            /\ \A r \in Eligible(documents) : \A i \in 1..Len(hits) :
                  documents[r].id \notin returned
                  => ~SimLess(hits[i].similarity, sim(documents[r].id))

\* C12 witness: three eligible rows of three different similarities and
\* top_k = 2: the two most similar are returned, best first
C12_Witness ==
    /\ PgDone /\ ret.status = "return"
    /\ Cardinality(Eligible(documents)) = 3 /\ args.top_k = 2
    /\ Len(ret.value) = 2
    /\ SimLess(ret.value[2].similarity, ret.value[1].similarity)
    /\ \E r \in Eligible(documents) :
          SimLess(PgSimilarity(documents[r].embedding, ret.query_embedding),
                  ret.value[2].similarity)

\* C20: a step of search_pgvector, whether it returns or raises, leaves the
\* rows of documents, queries and answers, and every field of them, as they
\* were.
C20_CoreLeavesRowsUnchanged ==
    [][op = "search_pgvector"
       => (documents' = documents /\ queries' = queries /\ answers' = answers)]_vars

\* C20 witness: a search over three stored rows, one of them without an
\* embedding, has raised on the rows' length and the table still holds them
C20_Witness ==
    /\ PgDone
    /\ ret = [status |-> "raise", error |-> "DataError"]
    /\ Len(documents) = 3
    /\ Cardinality(Eligible(documents)) = 2

-----------------------------------------------------------------------------
(* Properties of get_embedding and of the registry *)

EmbedDone == pc = "done" /\ op = "get_embedding"

\* the credential a model id needs, by the branch of _initialize_models that
\* registers it
HasCredential(model_name) ==
    CASE model_name = ADA -> settings.OPENAI_API_KEY
      [] model_name = COHERE -> settings.COHERE_API_KEY
      [] model_name \in {BGE_LARGE, BGE_BASE, E5_LARGE, E5_BASE, MINILM}
            -> settings.HUGGINGFACE_API_KEY
      [] OTHER -> FALSE

\* C13: get_embedding on a model id that is not registered, or whose
\* credential the settings lack, raises its model-not-available error (a
\* ValueError) and invokes no backend.
C13_UnavailableModelRaisesBeforeCall ==
    (EmbedDone /\ (args.model_name \notin DOMAIN models \/ ~HasCredential(args.model_name)))
    => /\ ret = [status |-> "raise", error |-> "ValueError"]
       /\ calls = <<>>

\* C13 witness: text-embedding-ada-002 asked for when OPENAI_API_KEY is absent
C13_Witness ==
    /\ EmbedDone
    /\ args.model_name = ADA /\ ~settings.OPENAI_API_KEY
    /\ env.provider_ok
    /\ ret.status = "raise" /\ calls = <<>>

\* C14: for every registered model id (every key of models, the ids listed
\* as available), get_embedding reaches the model's backend: it makes its
\* provider call instead of failing on provider state that is missing.
C14_AvailableModelsResolve ==
    (EmbedDone /\ args.model_name \in DOMAIN models)
    => /\ Len(calls) = 1
       /\ ret.status = "raise" => ret.error = "ProviderError"

ListingDone == pc = "done" /\ op = "get_available_models"

\* C15: the capability listing has one entry for every key of
\* EMBEDDING_DIMENSIONS and every registered model and no other, each with the
\* model's configured dimension, available being true exactly for the
\* registered models.
C15_ListingCoversKnownModels ==
    ListingDone =>
        /\ ret.status = "return"
        /\ {ret.value[i].key : i \in 1..Len(ret.value)}
              = DOMAIN EMBEDDING_DIMENSIONS \cup DOMAIN models
        /\ \A i, j \in 1..Len(ret.value) : ret.value[i].key = ret.value[j].key => i = j
        /\ \A i \in 1..Len(ret.value) :
              /\ ret.value[i].value.dimension = EMBEDDING_DIMENSIONS[ret.value[i].key]
              /\ ret.value[i].value.available = (ret.value[i].key \in DOMAIN models)

\* C15 witness: with the OpenAI credential alone, cohere-embed-v3 is listed
\* with dimension 1024 and as unavailable, text-embedding-ada-002 as available
C15_Witness ==
    /\ ListingDone
    /\ DOMAIN models = {ADA}
    /\ DictGet(ret.value, COHERE) = [dimension |-> 1024, available |-> FALSE]
    /\ DictGet(ret.value, ADA) = [dimension |-> 1536, available |-> TRUE]

\* C16: for every registered model, of whichever kind (openai, cohere, hf),
\* get_embedding returns the backend's vector for the text when the backend
\* succeeds.
C16_EveryKindReturnsBackendVector ==
    (EmbedDone /\ args.model_name \in DOMAIN models /\ env.provider_ok)
    => /\ ret.status = "return"
       /\ ret.value = ProviderVector(args.model_name, models[args.model_name], args.text)

\* C17: get_embedding on the empty text raises for every registered model; it
\* returns no vector.
C17_EmptyTextRaises ==
    (EmbedDone /\ args.text = "" /\ args.model_name \in DOMAIN models)
    => ret.status = "raise"

-----------------------------------------------------------------------------
(* Properties of concurrent calls *)

====
